---- MODULE Spec2Model ----
(***************************************************************************)
(* Model of the Anvil2 chunk interface                                     *)
(* (amulet/world_interface/chunk/interfaces/anvil2/anvil2_interface.py).   *)
(*                                                                         *)
(* NBT compounds are functions from field names to values, NBT lists and   *)
(* Python lists are sequences, dicts are functions.  A string that the     *)
(* code splits or formats is a sequence of tokens ("minecraft", ":",       *)
(* "air").  numpy arrays are records [shape, v] with v a function from     *)
(* 0-based index tuples to values; a long array is a sequence of 64-bit    *)
(* words, each word a sequence of bits, least significant bit first.       *)
(***************************************************************************)
EXTENDS Integers, Sequences, FiniteSets, TLC

VARIABLES pc, key, valid, data, chunk, palette, error, out, chunk2, palette2, error2

\* The command shell (src/command_line/command_handler.py): the mode stack, the
\* position of run() and of _exit, _exit's argument and outcome, and the stack
\* as it was when _exit was called
VARIABLES modes, shell_pc, force, exit_result, entry_modes

codec_vars == <<pc, key, valid, data, chunk, palette, error, out, chunk2, palette2, error2>>

shell_vars == <<modes, shell_pc, force, exit_result, entry_modes>>

vars == <<codec_vars, shell_vars>>

(* ------------------------------------------------------------------ *)
(* Sizes.  The source fixes a section at 16x16x16 and a chunk at 16    *)
(* sections; the model checks the same code at a smaller edge and      *)
(* section count.                                                      *)
(* ------------------------------------------------------------------ *)
Side == 2

NumSlabs == 2

Height == Side * NumSlabs

SectionSize == Side * Side * Side

LongBits == 64

MinBits == 4

MinVersion == 1444

LightBytes == 2048

HeightmapLongs == 36

TickLists == 16

Null == "null"

(* ------------------------------------------------------------------ *)
(* Generic helpers                                                     *)
(* ------------------------------------------------------------------ *)
Range(s) == {s[i] : i \in DOMAIN s}

RECURSIVE Pow2(_)
Pow2(n) == IF n = 0 THEN 1 ELSE 2 * Pow2(n - 1)

RECURSIVE bit_length(_)
bit_length(n) == IF n = 0 THEN 0 ELSE 1 + bit_length(n \div 2)

Max(S) == CHOOSE m \in S : \A x \in S : x <= m

RECURSIVE Flatten(_)
Flatten(ss) == IF ss = <<>> THEN <<>> ELSE Head(ss) \o Flatten(Tail(ss))

\* dict.get(key, default)
Get(d, k, default) == IF k \in DOMAIN d THEN d[k] ELSE default

\* numpy.zeros(n): a constant-filled array, kept as its length and fill value
Filled(n, v) == [len |-> n, fill |-> v]

zeros(n) == Filled(n, 0)

(* ------------------------------------------------------------------ *)
(* numpy arrays of three axes                                          *)
(* ------------------------------------------------------------------ *)
Index(shape) == (0 .. shape[1] - 1) \X (0 .. shape[2] - 1) \X (0 .. shape[3] - 1)

\* numpy.zeros(shape, dtype=int)
zeros3(shape) == [shape |-> shape, v |-> [idx \in Index(shape) |-> 0]]

SwapTuple(t, i, j) == [k \in 1 .. 3 |-> IF k = i THEN t[j] ELSE IF k = j THEN t[i] ELSE t[k]]

\* numpy.swapaxes(a, i, j), axes numbered from 0
swapaxes(a, i, j) ==
    LET sh == SwapTuple(a.shape, i + 1, j + 1)
    IN  [shape |-> sh, v |-> [idx \in Index(sh) |-> a.v[SwapTuple(idx, i + 1, j + 1)]]]

\* position of index tuple idx in C (row-major) order, 0-based
FlatOffset(shape, idx) == (idx[1] * shape[2] + idx[2]) * shape[3] + idx[3]

\* a.ravel(): the values in C order, as a sequence
ravel(a) ==
    LET n == a.shape[1] * a.shape[2] * a.shape[3]
    IN  [f \in 1 .. n |->
            a.v[<<(f - 1) \div (a.shape[2] * a.shape[3]),
                  ((f - 1) \div a.shape[3]) % a.shape[2],
                  (f - 1) % a.shape[3]>>]]

\* seq.reshape(shape)
reshape(seq, shape) ==
    [shape |-> shape, v |-> [idx \in Index(shape) |-> seq[FlatOffset(shape, idx) + 1]]]

\* a[:, lo:hi, :]
slice_axis1(a, lo, hi) ==
    LET sh == <<a.shape[1], hi - lo, a.shape[3]>>
    IN  [shape |-> sh, v |-> [idx \in Index(sh) |-> a.v[<<idx[1], idx[2] + lo, idx[3]>>]]]

\* a[lo:lo+n, :, :] = b
assign_axis0(a, lo, b) ==
    [a EXCEPT !.v = [idx \in Index(a.shape) |->
        IF idx[1] >= lo /\ idx[1] < lo + b.shape[1]
        THEN b.v[<<idx[1] - lo, idx[2], idx[3]>>]
        ELSE a.v[idx]]]

\* a + n
add_scalar(a, n) == [a EXCEPT !.v = [idx \in Index(a.shape) |-> a.v[idx] + n]]

\* numpy.unique(xs, return_inverse=True): the distinct elements in ascending
\* order of rank[x], and for every position of xs the 0-based index of its
\* element in that order
unique(xs, rank) ==
    LET S == Range(xs)
        pos(e) == Cardinality({x \in S : rank[x] < rank[e]})
        sorted == [i \in 1 .. Cardinality(S) |-> CHOOSE e \in S : pos(e) = i - 1]
    IN  [values |-> sorted, inverse |-> [i \in DOMAIN xs |-> pos(xs[i])]]

IntRank(xs) == [n \in Range(xs) |-> n]

(* ------------------------------------------------------------------ *)
(* Block descriptors (amulet.api.block.Block)                          *)
(* ------------------------------------------------------------------ *)
NoProperties == [p \in {} |-> ""]

Block(namespace, base_name, properties) ==
    [namespace |-> namespace, base_name |-> base_name, properties |-> properties]

\* Block(namespace="minecraft", base_name="air")
AirBlock == Block(<<"minecraft">>, <<"air">>, NoProperties)

StoneBlock == Block(<<"minecraft">>, <<"stone">>, NoProperties)

AcaciaLogBlock == Block(<<"minecraft">>, <<"acacia_log">>, [p \in {"axis"} |-> "y"])

\* The descriptors of the model, in ascending blockstate order
\* ("minecraft:acacia_log[axis=y]" < "minecraft:air" < "minecraft:stone").
BlockOrder == <<AcaciaLogBlock, AirBlock, StoneBlock>>

Blocks == Range(BlockOrder)

\* The order numpy.unique sorts Block objects by (Block's comparison)
BlockRank(b) == CHOOSE i \in DOMAIN BlockOrder : BlockOrder[i] = b

TAG_String(s) == [tag |-> "TAG_String", value |-> s]

\* str(val.value)
str(val) == val.value

\* isinstance(val, str)
IsStr(val) == val \in STRING

\* name.split(":", 1)
split1(name) ==
    LET i == CHOOSE k \in DOMAIN name : name[k] = ":" /\ \A j \in 1 .. k - 1 : name[j] # ":"
    IN  <<SubSeq(name, 1, i - 1), SubSeq(name, i + 1, Len(name))>>

\* f'{block.namespace}:{block.base_name}'
format_name(namespace, base_name) == namespace \o <<":">> \o base_name

_decode_palette(entries) ==
    [i \in DOMAIN entries |->
        LET entry == entries[i]
            parts == split1(entry.Name)
            props == Get(entry, "Properties", NoProperties)
        IN  Block(parts[1], parts[2], [prop \in DOMAIN props |-> str(props[prop])])]

_encode_palette(blockstates) ==
    [i \in DOMAIN blockstates |->
        LET block == blockstates[i]
        IN  [Name |-> format_name(block.namespace, block.base_name),
             Properties |-> [prop \in {q \in DOMAIN block.properties : IsStr(block.properties[q])}
                                |-> TAG_String(block.properties[prop])]]]

(* ------------------------------------------------------------------ *)
(* Bit-packed long arrays (amulet.utils.world_utils)                   *)
(* ------------------------------------------------------------------ *)
values_per_word(bits) == LongBits \div bits

words_needed(count, bits) == (count + values_per_word(bits) - 1) \div values_per_word(bits)

\* Values packed LSB-first into successive words; a value never straddles a
\* word boundary, the unused high bits of a word are zero.
pack(values, bits) ==
    LET vpw == values_per_word(bits)
    IN  [w \in 1 .. words_needed(Len(values), bits) |->
            [k \in 1 .. LongBits |->
                LET slot == (k - 1) \div bits
                    i == (w - 1) * vpw + slot + 1
                IN  IF slot < vpw /\ i <= Len(values)
                    THEN (values[i] \div Pow2((k - 1) % bits)) % 2
                    ELSE 0]]

RECURSIVE word_value(_, _, _)
word_value(word, lo, bits) ==
    IF bits = 0 THEN 0 ELSE word[lo] + 2 * word_value(word, lo + 1, bits - 1)

unpack(words, count, bits) ==
    LET vpw == values_per_word(bits)
    IN  [i \in 1 .. count |->
            word_value(words[(i - 1) \div vpw + 1], ((i - 1) % vpw) * bits + 1, bits)]

\* The bits per value of a packed array of `size` values: the narrowest width,
\* not below the minimum, whose packed length is the array's length.
bits_per_value(words, size) ==
    LET fits == {b \in MinBits .. LongBits : words_needed(size, b) = Len(words)}
    IN  IF fits = {} THEN MinBits ELSE CHOOSE b \in fits : \A c \in fits : b <= c

decode_long_array(words, size) == unpack(words, size, bits_per_value(words, size))

encode_long_array(values) ==
    LET needed == bit_length(Max(Range(values)))
    IN  pack(values, IF needed > MinBits THEN needed ELSE MinBits)

\* get_smallest_dtype(arr): the narrowest unsigned width holding every value
get_smallest_dtype(a) ==
    LET m == Max({a.v[idx] : idx \in Index(a.shape)})
    IN  IF m < 256 THEN 8 ELSE IF m < 65536 THEN 16 ELSE 32

\* arr.astype(f"uint{bits}")
astype_uint(a, bits) == [a EXCEPT !.v = [idx \in Index(a.shape) |-> a.v[idx] % Pow2(bits)]]

(* ------------------------------------------------------------------ *)
(* NBT tags whose type the interface chooses or passes through         *)
(* ------------------------------------------------------------------ *)
TAG_List(items) == [tag |-> "TAG_List", value |-> items]

TAG_Compound(fields) == [tag |-> "TAG_Compound", value |-> fields]

TAG_Long(n) == [tag |-> "TAG_Long", value |-> n]

TAG_Byte_Array(a) == [tag |-> "TAG_Byte_Array", value |-> a]

TAG_Long_Array(a) == [tag |-> "TAG_Long_Array", value |-> a]

NoFields == [k \in {} |-> Null]

HeightmapNames ==
    {"MOTION_BLOCKING", "MOTION_BLOCKING_NO_LEAVES", "OCEAN_FLOOR",
     "OCEAN_FLOOR_WG", "WORLD_SURFACE", "WORLD_SURFACE_WG"}

\* Fault variant of MiscKey: decode files Status under a key encode never reads
MiscKey_status_typo ==
    [TileTicks |-> "TileTicksA", LastUpdate |-> "LastUpdateL",
     InhabitedTime |-> "InhabitedTimeL", Status |-> "StatusS",
     Heightmaps |-> "HeightmapsC", ToBeTicked |-> "ToBeTickedA",
     PostProcessing |-> "PostProcessingA", Structures |-> "StructuresC",
     LiquidTicks |-> "LiquidTicksA", LiquidsToBeTicked |-> "LiquidsToBeTicked"]

\* The Level fields decode copies into the bag, and the bag key of each
MiscKey ==
    [TileTicks |-> "TileTicksA", LastUpdate |-> "LastUpdateL",
     InhabitedTime |-> "InhabitedTimeL", Status |-> "StatusSt",
     Heightmaps |-> "HeightmapsC", ToBeTicked |-> "ToBeTickedA",
     PostProcessing |-> "PostProcessingA", Structures |-> "StructuresC",
     LiquidTicks |-> "LiquidTicksA", LiquidsToBeTicked |-> "LiquidsToBeTicked"]

AuxFields == DOMAIN MiscKey

Failure(kind) == [ok |-> FALSE, error |-> kind]

(* ------------------------------------------------------------------ *)
(* Anvil2Interface.is_valid                                            *)
(* ------------------------------------------------------------------ *)
\* Fault variant of is_valid: the minimum version itself is rejected
is_valid_exclusive(k) ==
    IF k[1] # "anvil" THEN FALSE
    ELSE IF k[2] <= MinVersion THEN FALSE
    ELSE TRUE

is_valid(k) ==
    IF k[1] # "anvil" THEN FALSE
    ELSE IF k[2] < MinVersion THEN FALSE
    ELSE TRUE

(* ------------------------------------------------------------------ *)
(* Anvil2Interface._decode_blocks                                      *)
(* ------------------------------------------------------------------ *)
\* Fault variant of decode_axes: the second swap is left out
decode_axes_one_swap(blocks) == swapaxes(blocks, 0, 1)

\* numpy.swapaxes(blocks.swapaxes(0, 1), 0, 2)
decode_axes(blocks) == swapaxes(swapaxes(blocks, 0, 1), 0, 2)

\* Fault variant of unique_palette: the running list is kept as it is
unique_palette_keep(running) == [values |-> running, inverse |-> [i \in DOMAIN running |-> i - 1]]

\* numpy.unique(palette, return_inverse=True)
unique_palette(running) == unique(running, [b \in Range(running) |-> BlockRank(b)])

\* Fault variant of remap: the running indices are returned unmapped
remap_skipped(inverse, blocks) == [ok |-> TRUE, blocks |-> blocks]

\* inverse[blocks]: every value of blocks replaced by inverse at that value;
\* numpy raises IndexError for a value past the end of inverse
remap(inverse, blocks) ==
    IF \E idx \in Index(blocks.shape) : blocks.v[idx] >= Len(inverse)
    THEN Failure("IndexError")
    ELSE [ok |-> TRUE,
          blocks |-> [blocks EXCEPT !.v = [idx \in Index(blocks.shape) |-> inverse[blocks.v[idx] + 1]]]]

\* the loop over chunk_sections, from section i on
RECURSIVE decode_sections(_, _, _, _)
decode_sections(chunk_sections, i, blocks, running) ==
    IF i > Len(chunk_sections) THEN [ok |-> TRUE, blocks |-> blocks, palette |-> running]
    ELSE LET section == chunk_sections[i]
         IN  IF "Palette" \notin DOMAIN section
             THEN decode_sections(chunk_sections, i + 1, blocks, running)
             ELSE IF "BlockStates" \notin DOMAIN section
             THEN Failure("KeyError")
             ELSE LET height == section.Y * Side
                      local == reshape(decode_long_array(section.BlockStates, SectionSize),
                                       <<Side, Side, Side>>)
                  IN  decode_sections(chunk_sections, i + 1,
                                      assign_axis0(blocks, height, add_scalar(local, Len(running))),
                                      running \o _decode_palette(section.Palette))

_decode_blocks(chunk_sections) ==
    IF chunk_sections = <<>> THEN Failure("NotImplementedError")
    ELSE LET looped == decode_sections(chunk_sections, 1, zeros3(<<Height, Side, Side>>), <<AirBlock>>)
         IN  IF ~looped.ok THEN looped
             ELSE LET uniq == unique_palette(looped.palette)
                      mapped == remap(uniq.inverse, decode_axes(looped.blocks))
                  IN  IF ~mapped.ok THEN mapped
                      ELSE [ok |-> TRUE,
                            blocks |-> astype_uint(mapped.blocks, get_smallest_dtype(mapped.blocks)),
                            palette |-> uniq.values]

(* ------------------------------------------------------------------ *)
(* Anvil2Interface.decode                                              *)
(* ------------------------------------------------------------------ *)
_decode_entities(entities) == <<>>

\* {section['Y'].value: section[field] for section in sections}
light_by_slab(sections, field) ==
    [y \in {sections[i].Y : i \in DOMAIN sections} |->
        LET last == Max({i \in DOMAIN sections : sections[i].Y = y}) IN sections[last][field]]

decode_misc(level) ==
    [k \in {"BlockLight2048BA", "SkyLight2048BA"} \cup {MiscKey[f] : f \in AuxFields} |->
        IF k = "BlockLight2048BA" THEN light_by_slab(level.Sections, "BlockLight")
        ELSE IF k = "SkyLight2048BA" THEN light_by_slab(level.Sections, "SkyLight")
        ELSE level[CHOOSE f \in AuxFields : MiscKey[f] = k]]

decode(d) ==
    LET level == d.Level
        decoded == _decode_blocks(level.Sections)
    IN  IF ~decoded.ok THEN decoded
        ELSE IF \E i \in DOMAIN level.Sections :
                    {"BlockLight", "SkyLight"} \ DOMAIN level.Sections[i] # {}
        THEN Failure("KeyError")
        ELSE IF (AuxFields \cup {"Biomes", "Entities"}) \ DOMAIN level # {}
        THEN Failure("KeyError")
        ELSE [ok |-> TRUE,
              chunk |-> [cx |-> level.xPos, cz |-> level.zPos, blocks |-> decoded.blocks,
                         entities |-> _decode_entities(level.Entities), tileentities |-> Null,
                         biomes |-> level.Biomes, misc |-> decode_misc(level)],
              palette |-> decoded.palette]

(* ------------------------------------------------------------------ *)
(* Anvil2Interface._encode_blocks                                      *)
(* ------------------------------------------------------------------ *)
\* Fault variant of is_air_only: the name is compared without its namespace
is_air_only_bare_name(sub_palette) ==
    Len(sub_palette) = 1 /\ sub_palette[1].Name = <<"air">>

\* len(sub_palette) == 1 and sub_palette[0]['Name'].value == 'minecraft:air'
is_air_only(sub_palette) ==
    Len(sub_palette) = 1 /\ sub_palette[1].Name = <<"minecraft", ":", "air">>

\* Fault variant of encode_section: the chunk-wide indices are packed in
\* place of the positions in the section's own palette
encode_section_global_indices(blocks, pal, y) ==
    LET block_sub_array == ravel(slice_axis1(blocks, y * Side, y * Side + Side))
        uniq == unique(block_sub_array, IntRank(block_sub_array))
        sub_palette == _encode_palette([i \in DOMAIN uniq.values |-> pal[uniq.values[i] + 1]])
    IN  IF is_air_only(sub_palette) THEN <<>>
        ELSE <<[Y |-> y,
                BlockStates |-> encode_long_array(block_sub_array),
                Palette |-> sub_palette]>>

\* the section of slab y, or no section when the slab is skipped
encode_section(blocks, pal, y) ==
    LET block_sub_array == ravel(slice_axis1(blocks, y * Side, y * Side + Side))
        uniq == unique(block_sub_array, IntRank(block_sub_array))
        sub_palette == _encode_palette([i \in DOMAIN uniq.values |-> pal[uniq.values[i] + 1]])
    IN  IF is_air_only(sub_palette) THEN <<>>
        ELSE <<[Y |-> y,
                BlockStates |-> encode_long_array(uniq.inverse),
                Palette |-> sub_palette]>>

_encode_blocks(blocks, pal) ==
    Flatten([s \in 1 .. NumSlabs |-> encode_section(blocks, pal, s - 1)])

(* ------------------------------------------------------------------ *)
(* Anvil2Interface.encode                                              *)
(* ------------------------------------------------------------------ *)
_encode_entities(entities) == <<>>

default_light == TAG_Byte_Array(zeros(LightBytes))

default_heightmap == TAG_Long_Array(zeros(HeightmapLongs))

empty_tick_lists == TAG_List([i \in 1 .. TickLists |-> TAG_List(<<>>)])

with_light(section, misc) ==
    LET block_light == Get(misc, "BlockLight2048", NoFields)
        sky_light == Get(misc, "SkyLight2048", NoFields)
    IN  [k \in DOMAIN section \cup {"BlockLight", "SkyLight"} |->
            IF k = "BlockLight" THEN Get(block_light, section.Y, default_light)
            ELSE IF k = "SkyLight" THEN Get(sky_light, section.Y, default_light)
            ELSE section[k]]

\* Fault variant of encode_heightmaps: the bag's compound is written as it is
encode_heightmaps_verbatim(misc) == Get(misc, "HeightmapsC", TAG_Compound(NoFields))

encode_heightmaps(misc) ==
    LET heightmaps == Get(misc, "HeightmapsC", TAG_Compound(NoFields))
    IN  TAG_Compound([heightmap \in HeightmapNames |->
            Get(heightmaps.value, heightmap, default_heightmap)])

encode(c, pal, max_world_version) ==
    LET misc == c.misc
        sections == _encode_blocks(c.blocks, pal)
    IN  [DataVersion |-> max_world_version[2],
         Level |->
           [xPos |-> c.cx,
            zPos |-> c.cz,
            Sections |-> [i \in DOMAIN sections |-> with_light(sections[i], misc)],
            TileTicks |-> Get(misc, "TileTicksA", TAG_List(<<>>)),
            LastUpdate |-> Get(misc, "LastUpdateL", TAG_Long(0)),
            Biomes |-> c.biomes,
            InhabitedTime |-> Get(misc, "InhabitedTimeL", TAG_Long(0)),
            Status |-> Get(misc, "StatusSt", TAG_String("postprocessed")),
            Heightmaps |-> encode_heightmaps(misc),
            ToBeTicked |-> Get(misc, "ToBeTickedA", empty_tick_lists),
            PostProcessing |-> Get(misc, "PostProcessingA", empty_tick_lists),
            Structures |-> Get(misc, "StructuresC", TAG_Compound(NoFields)),
            LiquidTicks |-> Get(misc, "LiquidTicksA", TAG_List(<<>>)),
            LiquidsToBeTicked |-> Get(misc, "LiquidsToBeTicked", empty_tick_lists),
            Entities |-> _encode_entities(c.entities)]]

(* ------------------------------------------------------------------ *)
(* Inputs: chunk records as found on disk, and chunks built in memory  *)
(* ------------------------------------------------------------------ *)
MaxPalette == 2

Keys == {"anvil", "leveldb"} \X {1343, 1443, 1444, 1445, 1631}

WorldVersions == {<<"anvil", 1631>>}

AirEntry == [Name |-> <<"minecraft", ":", "air">>]

StoneEntry == [Name |-> <<"minecraft", ":", "stone">>]

AcaciaLogEntry ==
    [Name |-> <<"minecraft", ":", "acacia_log">>, Properties |-> [p \in {"axis"} |-> TAG_String("y")]]

Entries == {AirEntry, StoneEntry, AcaciaLogEntry}

LocalPalettes == UNION {[1 .. n -> Entries] : n \in 1 .. MaxPalette}

\* Index arrays of one section: local index 0 everywhere, or 0 everywhere but
\* one voxel holding another index, up to one past the end of the palette
UniformValues == [f \in 1 .. SectionSize |-> 0]

MarkedValues(len, offsets) ==
    {[f \in 1 .. SectionSize |-> IF f = at THEN mark ELSE 0] : at \in offsets, mark \in 1 .. len}

\* one step along each storage axis from the first voxel, and the last voxel
AxisOffsets == {2, Side + 1, Side * Side + 1, SectionSize}

\* Packed at the width the game writes for a palette of that size
Packed(values, len) == pack(values, IF bit_length(len - 1) > MinBits THEN bit_length(len - 1) ELSE MinBits)

InputLight(y) ==
    [BlockLight |-> TAG_Byte_Array(Filled(LightBytes, 16 + y)),
     SkyLight |-> TAG_Byte_Array(Filled(LightBytes, 32 + y))]

BareSection(y) == [Y |-> y] @@ InputLight(y)

FullSection(y, entries, values) ==
    [Y |-> y, Palette |-> entries, BlockStates |-> Packed(values, Len(entries))] @@ InputLight(y)

PaletteOnlySection(y) == [Y |-> y, Palette |-> <<StoneEntry>>] @@ InputLight(y)

BlockStatesOnlySection(y) ==
    [Y |-> y, BlockStates |-> Packed(UniformValues, 1)] @@ InputLight(y)

\* what a slab contributes to the section list: no section, or one
SimpleSlab(y) ==
    {<<>>, <<BareSection(y)>>, <<PaletteOnlySection(y)>>, <<BlockStatesOnlySection(y)>>,
     <<FullSection(y, <<AirEntry>>, UniformValues)>>,
     <<FullSection(y, <<StoneEntry>>, UniformValues)>>}

PlainSlab(y) == {<<>>, <<FullSection(y, <<StoneEntry>>, UniformValues)>>}

\* every palette with a mark on an axis step, and two palettes with a mark on
\* every voxel in turn
DetailedSlab(y) ==
    UNION {{<<FullSection(y, entries, values)>> : values \in MarkedValues(Len(entries), AxisOffsets)} :
              entries \in LocalPalettes}
    \cup {<<FullSection(y, entries, values)>> :
             entries \in {<<AirEntry, StoneEntry>>, <<StoneEntry, AcaciaLogEntry>>},
             values \in MarkedValues(2, 1 .. SectionSize)}

Slab(y, kind) ==
    IF kind = "simple" THEN SimpleSlab(y)
    ELSE IF kind = "plain" THEN PlainSlab(y)
    ELSE DetailedSlab(y)

\* the section lists with one slab of each kind, slabs in ascending order
RECURSIVE SectionLists(_, _)
SectionLists(kinds, y) ==
    IF y = NumSlabs THEN {<<>>}
    ELSE {head \o rest : head \in Slab(y, kinds[y + 1]), rest \in SectionLists(kinds, y + 1)}

InputSections ==
    SectionLists([s \in 1 .. NumSlabs |-> "simple"], 0)
    \cup UNION {SectionLists([s \in 1 .. NumSlabs |-> IF s = d THEN "detailed" ELSE "plain"], 0) :
                   d \in 1 .. NumSlabs}

Heightmap(fill) == TAG_Long_Array(Filled(HeightmapLongs, fill))

\* auxiliary Level fields of an input record; n tells two records apart
Aux(n, heightmaps) ==
    [TileTicks |-> TAG_List(<<[i |-> "minecraft:stone", t |-> n]>>),
     LastUpdate |-> TAG_Long(100 + n),
     InhabitedTime |-> TAG_Long(200 + n),
     Status |-> TAG_String(IF n = 1 THEN "full" ELSE "postprocessed"),
     Heightmaps |-> TAG_Compound([h \in heightmaps |-> Heightmap(IF h = "OCEAN_FLOOR" THEN n ELSE 10 + n)]),
     ToBeTicked |-> TAG_List(<<TAG_List(<<300 + n>>)>>),
     PostProcessing |-> TAG_List(<<TAG_List(<<400 + n>>)>>),
     Structures |-> TAG_Compound([References |-> n]),
     LiquidTicks |-> TAG_List(<<[i |-> "minecraft:water", t |-> n]>>),
     LiquidsToBeTicked |-> TAG_List(<<TAG_List(<<500 + n>>)>>)]

Record(sections, aux) ==
    [DataVersion |-> 1631,
     Level |-> [xPos |-> 3, zPos |-> -2, Sections |-> sections,
                Biomes |-> Filled(256, 1), Entities |-> <<[id |-> "minecraft:pig"]>>] @@ aux]

Without(f, k) == [x \in DOMAIN f \ {k} |-> f[x]]

StoneSections == <<FullSection(0, <<StoneEntry>>, UniformValues)>>

Records ==
    {Record(sections, Aux(1, HeightmapNames)) : sections \in InputSections}
    \cup {Record(StoneSections, Aux(n, heightmaps)) : n \in {1, 2}, heightmaps \in SUBSET HeightmapNames}
    \cup {[Record(StoneSections, Aux(2, HeightmapNames)) EXCEPT !.Level = Without(@, field)] :
             field \in AuxFields \cup {"Biomes"}}
    \cup {Record(<<Without(StoneSections[1], light)>>, Aux(2, HeightmapNames)) :
             light \in {"BlockLight", "SkyLight"}}

\* Chunks the editor builds in memory: a palette without duplicates, every slab
\* filled with one palette index, and a bag holding any of the keys or none
BuiltPalettes == {<<AirBlock, StoneBlock>>, <<StoneBlock, AirBlock>>, <<AcaciaLogBlock, AirBlock, StoneBlock>>}

BuiltBlocks(len) ==
    {[shape |-> <<Side, Height, Side>>,
      v |-> [idx \in Index(<<Side, Height, Side>>) |-> fill[idx[2] \div Side]]] :
        fill \in [0 .. NumSlabs - 1 -> 0 .. len - 1]}

BuiltLight == [y \in {0} |-> TAG_Byte_Array(Filled(LightBytes, 7))]

FullMisc == decode_misc(Record(StoneSections, Aux(1, {"OCEAN_FLOOR", "WORLD_SURFACE"})).Level)

BuiltMiscs ==
    {FullMisc, NoFields,
     [k \in {"BlockLight2048", "SkyLight2048"} |-> BuiltLight]}
    \cup {Without(FullMisc, k) : k \in DOMAIN FullMisc}

BuiltChunks ==
    UNION {{[chunk |-> [cx |-> 0, cz |-> 5, blocks |-> blocks, entities |-> <<>>,
                        tileentities |-> Null, biomes |-> Filled(256, 4), misc |-> misc],
             palette |-> pal] :
               blocks \in BuiltBlocks(Len(pal)), misc \in BuiltMiscs} : pal \in BuiltPalettes}

(* ------------------------------------------------------------------ *)
(* The state machine: the applicability check, a load (decode), a      *)
(* save (encode) of the loaded or of a built chunk, and the next load  *)
(* of the record that was saved                                        *)
(* ------------------------------------------------------------------ *)
Init ==
    /\ pc = "start"
    /\ key = Null
    /\ valid = Null
    /\ data = Null
    /\ chunk = Null
    /\ palette = Null
    /\ error = Null
    /\ out = Null
    /\ chunk2 = Null
    /\ palette2 = Null
    /\ error2 = Null
    /\ modes = <<>>
    /\ shell_pc = "idle"
    /\ force = FALSE
    /\ exit_result = Null
    /\ entry_modes = <<>>

IsValid ==
    /\ pc = "start"
    /\ \E k \in Keys :
        /\ key' = k
        /\ valid' = is_valid(k)
    /\ pc' = "checked"
    /\ UNCHANGED <<data, chunk, palette, error, out, chunk2, palette2, error2, shell_vars>>

Decode ==
    /\ pc = "start"
    /\ \E d \in Records :
        LET result == decode(d)
        IN  /\ data' = d
            /\ IF result.ok
               THEN /\ chunk' = result.chunk
                    /\ palette' = result.palette
                    /\ error' = "none"
                    /\ pc' = "decoded"
               ELSE /\ error' = result.error
                    /\ pc' = "failed"
                    /\ UNCHANGED <<chunk, palette>>
    /\ UNCHANGED <<key, valid, out, chunk2, palette2, error2, shell_vars>>

Encode ==
    /\ pc \in {"start", "decoded"}
    /\ \E c \in IF pc = "decoded" THEN {[chunk |-> chunk, palette |-> palette]} ELSE BuiltChunks,
          max_world_version \in WorldVersions :
        /\ chunk' = c.chunk
        /\ palette' = c.palette
        /\ out' = encode(c.chunk, c.palette, max_world_version)
    /\ pc' = "encoded"
    /\ UNCHANGED <<key, valid, data, error, chunk2, palette2, error2, shell_vars>>

Reload ==
    /\ pc = "encoded"
    /\ LET result == decode(out)
       IN  IF result.ok
           THEN /\ chunk2' = result.chunk
                /\ palette2' = result.palette
                /\ error2' = "none"
           ELSE /\ error2' = result.error
                /\ UNCHANGED <<chunk2, palette2>>
    /\ pc' = "reloaded"
    /\ UNCHANGED <<key, valid, data, chunk, palette, error, out, shell_vars>>

Next == IsValid \/ Decode \/ Encode \/ Reload

Spec == Init /\ [][Next]_vars

(* ------------------------------------------------------------------ *)
(* The command shell: CommandHandler.enter_mode, exit_mode, _exit and  *)
(* the "exit" branch of run.  The mode stack is a sequence, its top    *)
(* the last element.  A Mode is known to the handler by what its       *)
(* enter() and exit() return.                                          *)
(* ------------------------------------------------------------------ *)
MaxModes == 3

ModeNames == {"world", "edit"}

Modes == [name : ModeNames, enters : BOOLEAN, exits : BOOLEAN]

\* exit_mode(force): the stack it leaves and the value it returns
exit_mode(stack, forced) ==
    IF stack = <<>> THEN [modes |-> stack, returns |-> FALSE]
    ELSE LET mode == stack[Len(stack)]
             exited == mode.exits
         IN  IF forced THEN [modes |-> SubSeq(stack, 1, Len(stack) - 1), returns |-> TRUE]
             ELSE IF ~exited THEN [modes |-> stack, returns |-> FALSE]
             ELSE [modes |-> SubSeq(stack, 1, Len(stack) - 1), returns |-> TRUE]

\* enter_mode(mode), called by a command while run() waits for it
EnterMode ==
    /\ shell_pc = "idle"
    /\ Len(modes) < MaxModes
    /\ \E mode \in Modes :
        modes' = IF mode.enters THEN Append(modes, mode) ELSE modes
    /\ UNCHANGED <<shell_pc, force, exit_result, entry_modes, codec_vars>>

\* exit_mode(force), called by a command while run() waits for it
ExitMode ==
    /\ shell_pc = "idle"
    /\ \E forced \in BOOLEAN : modes' = exit_mode(modes, forced).modes
    /\ UNCHANGED <<shell_pc, force, exit_result, entry_modes, codec_vars>>

\* run(): the "exit" command calls _exit("-f" in command_parts)
ExitCall ==
    /\ shell_pc = "idle"
    /\ \E forced \in BOOLEAN : force' = forced
    /\ entry_modes' = modes
    /\ exit_result' = Null
    /\ shell_pc' = "exiting"
    /\ UNCHANGED <<modes, codec_vars>>

\* _exit: one test of the while condition and, the stack not being empty, one
\* pass of the loop body.  The body's print names `mode`, which _exit never
\* binds, so the pass that meets a refusal ends in NameError.
ExitLoop ==
    /\ shell_pc = "exiting"
    /\ IF modes = <<>>
       THEN /\ exit_result' = "True"
            /\ shell_pc' = "returned"
            /\ UNCHANGED modes
       ELSE LET called == exit_mode(modes, force)
            IN  /\ modes' = called.modes
                /\ IF ~called.returns
                   THEN /\ exit_result' = "NameError"
                        /\ shell_pc' = "raised"
                   ELSE UNCHANGED <<exit_result, shell_pc>>
    /\ UNCHANGED <<force, entry_modes, codec_vars>>

\* run(): `if not self._exit(...): continue` and `break`
ExitReturn ==
    /\ shell_pc = "returned"
    /\ shell_pc' = IF exit_result = "True" THEN "stopped" ELSE "idle"
    /\ UNCHANGED <<modes, force, exit_result, entry_modes, codec_vars>>

ShellNext == EnterMode \/ ExitMode \/ ExitCall \/ ExitLoop \/ ExitReturn

SpecShell == Init /\ [][ShellNext]_vars

(* ------------------------------------------------------------------ *)
(* Properties                                                          *)
(* ------------------------------------------------------------------ *)
\* a record was decoded (error is "none" when it succeeded)
Loaded == error # Null

Saved == pc \in {"encoded", "reloaded"}

\* the descriptor a voxel resolves to
Resolved(c, pal, pos) == pal[c.blocks.v[pos] + 1]

Positions == Index(<<Side, Height, Side>>)

SectionsOf(d) == Range(d.Level.Sections)

\* C1: round trip: when a chunk produced by decode is encoded and the record
\* decoded again, the second decode succeeds, every position resolves to the
\* descriptor it resolved to before, and the two palettes hold the same set of
\* descriptors.
C1_RoundTrip ==
    (pc = "reloaded" /\ error = "none") =>
        /\ error2 = "none"
        /\ \A pos \in Positions : Resolved(chunk2, palette2, pos) = Resolved(chunk, palette, pos)
        /\ Range(palette2) = Range(palette)

\* C2: decoding a record in which a section has exactly one of Palette and
\* BlockStates fails and returns no result.
Mismatched(section) == ("Palette" \in DOMAIN section) # ("BlockStates" \in DOMAIN section)

C2_MismatchFails ==
    (Loaded /\ \E section \in SectionsOf(data) : Mismatched(section)) => error # "none"

\* C3: light pass-through: every section emitted for a decoded chunk whose
\* input section carried BlockLight / SkyLight gets exactly those arrays back.
C3_LightPassThrough ==
    (Saved /\ error = "none") =>
        \A emitted \in SectionsOf(out), section \in SectionsOf(data) :
            emitted.Y = section.Y =>
                /\ emitted.BlockLight = section.BlockLight
                /\ emitted.SkyLight = section.SkyLight

\* C4: air-only compaction: a slab whose every voxel resolves to the default
\* air descriptor has no section in the encoded record.
AirOnlySlab(c, pal, y) ==
    \A pos \in Positions : pos[2] \div Side = y => Resolved(c, pal, pos) = Block(<<"minecraft">>, <<"air">>, NoProperties)

C4_AirOnlyCompaction ==
    Saved => \A y \in 0 .. NumSlabs - 1 :
                AirOnlySlab(chunk, palette, y) => \A emitted \in SectionsOf(out) : emitted.Y # y

C4_Witness ==
    /\ pc = "encoded"
    /\ \E y \in 0 .. NumSlabs - 1 : AirOnlySlab(chunk, palette, y)
    /\ out.Level.Sections # <<>>
    /\ Len(palette) > 1
    /\ palette[1] # AirBlock

\* C5: no dangling indices: after a successful decode every value of the
\* volume is an index into the returned palette, also in slabs whose section
\* has no Palette or that have no section.
ValidIndices(c, pal) == \A pos \in Positions : c.blocks.v[pos] \in 0 .. Len(pal) - 1

C5_NoDanglingIndices ==
    /\ error = "none" => ValidIndices(chunk, palette)
    /\ error2 = "none" => ValidIndices(chunk2, palette2)

C5_Witness ==
    /\ pc = "decoded"
    /\ \E section \in SectionsOf(data) : "Palette" \notin DOMAIN section
    /\ \E y \in 0 .. NumSlabs - 1 : \A section \in SectionsOf(data) : section.Y # y
    /\ ValidIndices(chunk, palette)

\* C6: palette uniqueness: after a successful decode no two indices of the
\* returned palette hold equal descriptors.
NoDuplicates(pal) == \A i, j \in DOMAIN pal : i # j => pal[i] # pal[j]

C6_PaletteUnique ==
    /\ error = "none" => NoDuplicates(palette)
    /\ error2 = "none" => NoDuplicates(palette2)

\* two sections repeat a descriptor and a section repeats the seeded air entry
C6_Witness ==
    /\ pc = "decoded"
    /\ \E s1, s2 \in SectionsOf(data) :
        /\ s1.Y # s2.Y
        /\ "Palette" \in DOMAIN s1 /\ "Palette" \in DOMAIN s2
        /\ Range(s1.Palette) \cap Range(s2.Palette) # {}
        /\ AirEntry \in Range(s1.Palette)
    /\ NoDuplicates(palette)

\* C7: auxiliary pass-through: encoding a decoded chunk writes every auxiliary
\* field, and every heightmap the input held, with the value of the input.
C7_AuxPassThrough ==
    (Saved /\ error = "none") =>
        /\ \A f \in {"TileTicks", "LiquidTicks", "LiquidsToBeTicked", "ToBeTicked", "PostProcessing",
                     "LastUpdate", "InhabitedTime", "Status", "Structures"} :
              out.Level[f] = data.Level[f]
        /\ \A h \in HeightmapNames \cap DOMAIN data.Level.Heightmaps.value :
              out.Level.Heightmaps.value[h] = data.Level.Heightmaps.value[h]

C7_Witness ==
    /\ pc = "encoded"
    /\ error = "none"
    /\ out.Level.Status = TAG_String("full")
    /\ DOMAIN data.Level.Heightmaps.value = {"OCEAN_FLOOR", "WORLD_SURFACE_WG"}
    /\ out.Level.Heightmaps.value["OCEAN_FLOOR"] = Heightmap(1)

\* The defaults the field table documents, with the length of a heightmap left open
SixteenEmptyLists == [tag |-> "TAG_List", value |-> [i \in 1 .. 16 |-> [tag |-> "TAG_List", value |-> <<>>]]]

DocumentedDefault ==
    [TileTicks |-> [tag |-> "TAG_List", value |-> <<>>],
     LiquidTicks |-> [tag |-> "TAG_List", value |-> <<>>],
     ToBeTicked |-> SixteenEmptyLists,
     PostProcessing |-> SixteenEmptyLists,
     LiquidsToBeTicked |-> SixteenEmptyLists,
     LastUpdate |-> [tag |-> "TAG_Long", value |-> 0],
     InhabitedTime |-> [tag |-> "TAG_Long", value |-> 0],
     Status |-> [tag |-> "TAG_String", value |-> "postprocessed"],
     Structures |-> [tag |-> "TAG_Compound", value |-> NoFields]]

BagHeightmaps == IF "HeightmapsC" \in DOMAIN chunk.misc THEN DOMAIN chunk.misc["HeightmapsC"].value ELSE {}

EncodeDefaults(heightmap_longs) ==
    Saved =>
        /\ \A f \in DOMAIN DocumentedDefault :
              MiscKey[f] \notin DOMAIN chunk.misc => out.Level[f] = DocumentedDefault[f]
        /\ DOMAIN out.Level.Heightmaps.value = HeightmapNames
        /\ \A h \in HeightmapNames \ BagHeightmaps :
              out.Level.Heightmaps.value[h] =
                  [tag |-> "TAG_Long_Array", value |-> [len |-> heightmap_longs, fill |-> 0]]

\* C8 as claimed: every auxiliary field absent from the bag is written with its
\* documented default, a missing heightmap as an all-zero array of 37 entries,
\* and the Heightmaps compound has exactly the six named keys.
C8_Defaults37 == EncodeDefaults(37)

\* C8 as amended: the same, with a missing heightmap written as an all-zero
\* array of 36 entries.
C8_Defaults36 == EncodeDefaults(36)

C8_Witness ==
    /\ pc = "encoded"
    /\ "StatusSt" \notin DOMAIN chunk.misc
    /\ BagHeightmaps = {"OCEAN_FLOOR", "WORLD_SURFACE"}
    /\ out.Level.Status.value = "postprocessed"
    /\ out.Level.Heightmaps.value["MOTION_BLOCKING"].value.len = 36

\* C9: version gating: is_valid(key) is True exactly when the format tag is
\* "anvil" and the version is at least 1444.
C9_VersionGating ==
    pc = "checked" => (valid <=> (key[1] = "anvil" /\ key[2] >= 1444))

C9_Witness == pc = "checked" /\ key = <<"anvil", 1444>> /\ valid = TRUE

\* the voxel of the decoded chunk holds the descriptor that the section's
\* palette gives for the unpacked value at flat offset `at`
Placed(section, at, pos) ==
    LET values == decode_long_array(section.BlockStates, SectionSize)
        local == _decode_palette(section.Palette)
    IN  values[at + 1] < Len(local) => Resolved(chunk, palette, pos) = local[values[at + 1] + 1]

\* C10 as claimed: the value at flat offset h*Side*Side + x*Side + z of the
\* section of slab s is found at public position (x, Side*s + h, z).
C10_AxisMappingXZ ==
    error = "none" =>
        \A section \in {s \in SectionsOf(data) : "Palette" \in DOMAIN s} :
            \A h, x, z \in 0 .. Side - 1 :
                Placed(section, (h * Side + x) * Side + z, <<x, Side * section.Y + h, z>>)

\* C10 as amended: the value at flat offset h*Side*Side + z*Side + x of the
\* section of slab s is found at public position (x, Side*s + h, z).
C10_AxisMappingZX ==
    error = "none" =>
        \A section \in {s \in SectionsOf(data) : "Palette" \in DOMAIN s} :
            \A h, x, z \in 0 .. Side - 1 :
                Placed(section, (h * Side + z) * Side + x, <<x, Side * section.Y + h, z>>)

\* a decoded section with a single marked voxel one step along the innermost
\* storage axis
C10_Witness ==
    /\ pc = "decoded"
    /\ \E section \in {s \in SectionsOf(data) : "Palette" \in DOMAIN s} :
        LET values == decode_long_array(section.BlockStates, SectionSize)
        IN  /\ values[2] = 1
            /\ Len(section.Palette) = 2
            /\ section.Palette[1] # section.Palette[2]
            /\ Resolved(chunk, palette, <<1, Side * section.Y, 0>>) # Resolved(chunk, palette, <<0, Side * section.Y, 1>>)

\* the voxels of slab y in the order encode traverses them, as the descriptors
\* they resolve to
SlabDescriptors(y) ==
    [f \in 1 .. SectionSize |->
        Resolved(chunk, palette,
                 <<(f - 1) \div (Side * Side), Side * y + (((f - 1) \div Side) % Side), (f - 1) % Side>>)]

\* the distinct elements of a sequence in order of first appearance
RECURSIVE FirstAppearance(_, _)
FirstAppearance(seq, seen) ==
    IF seq = <<>> THEN <<>>
    ELSE IF Head(seq) \in seen THEN FirstAppearance(Tail(seq), seen)
    ELSE <<Head(seq)>> \o FirstAppearance(Tail(seq), seen \cup {Head(seq)})

GlobalIndex(b) == CHOOSE i \in DOMAIN palette : palette[i] = b

\* the local palette holds exactly the slab's descriptors, each once, and the
\* index array gives every voxel the position of its descriptor in it
LocalPaletteIndexes(emitted) ==
    LET local == _decode_palette(emitted.Palette)
        values == decode_long_array(emitted.BlockStates, SectionSize)
        slab == SlabDescriptors(emitted.Y)
    IN  /\ Range(local) = Range(slab)
        /\ NoDuplicates(local)
        /\ \A f \in 1 .. SectionSize : values[f] < Len(local)
        /\ \A f \in 1 .. SectionSize : local[values[f] + 1] = slab[f]

\* C11 as claimed: every emitted section's Palette holds exactly the
\* descriptors its slab uses, each once, in order of first appearance in the
\* traversal of the slab, and the index array holds for each voxel the position
\* of its descriptor in that Palette.
C11_LocalPaletteFirstAppearance ==
    Saved =>
        \A emitted \in SectionsOf(out) :
            /\ LocalPaletteIndexes(emitted)
            /\ _decode_palette(emitted.Palette) = FirstAppearance(SlabDescriptors(emitted.Y), {})

\* C11 as amended: the same, with the Palette listed in ascending order of the
\* descriptors' indices in the chunk-wide palette passed to encode.
C11_LocalPaletteAscending ==
    Saved =>
        \A emitted \in SectionsOf(out) :
            LET local == _decode_palette(emitted.Palette)
            IN  /\ LocalPaletteIndexes(emitted)
                /\ \A i, j \in DOMAIN local : i < j => GlobalIndex(local[i]) < GlobalIndex(local[j])

\* an emitted section whose slab meets a higher chunk-wide index first
C11_Witness ==
    /\ pc = "encoded"
    /\ \E emitted \in SectionsOf(out) :
        /\ Len(emitted.Palette) = 2
        /\ _decode_palette(emitted.Palette) # FirstAppearance(SlabDescriptors(emitted.Y), {})
        /\ LocalPaletteIndexes(emitted)

\* the mode nearest the top of the stack whose exit() returns False
FirstRefusal(stack) == Max({i \in DOMAIN stack : ~stack[i].exits})

\* C12: _exit(force) ends without raising; with force it leaves the stack
\* empty and returns True; without force it does so if every mode's exit()
\* returns True, and otherwise returns False leaving the first mode whose
\* exit() returns False, and all modes below it, on the stack.
C12_ExitUnwinds ==
    shell_pc \in {"returned", "raised"} =>
        IF force \/ \A i \in DOMAIN entry_modes : entry_modes[i].exits
        THEN modes = <<>> /\ exit_result = "True"
        ELSE /\ exit_result = "False"
             /\ modes = SubSeq(entry_modes, 1, FirstRefusal(entry_modes))

====
